---- MODULE Spec2Model ----
(***************************************************************************)
(* Model of the signal compiler scripts/bin-to-c.py ("signals-to-c.py"):   *)
(* a JSON signal map (device -> memory blocks -> groups -> signals) is     *)
(* compiled into a C header (structural stream, hfile) and a C source      *)
(* (runtime stream, cfile).  The JSON documents are the input: they are    *)
(* read piecewise, each piece when the code first looks at it.             *)
(*                                                                         *)
(* Text written to the two files is modelled as a sequence of tokens, one  *)
(* token per write (or group of adjacent writes) of the script.            *)
(*                                                                         *)
(* The module also models scripts/merge_json.py, which merges JSON         *)
(* fragments into one document: its state is in the variables of mjvars    *)
(* and its runs are those of MergeSpec, and the script                     *)
(* extensions/tls/scripts/create-certificate-request.py, which writes a    *)
(* certificate request and its private key: its state is in the variables  *)
(* of crvars and its runs are those of CertSpec.                           *)
(***************************************************************************)
EXTENDS Integers, Sequences, FiniteSets, TLC

\* ------------------------------------------------------------------ bounds
\* Each bound is on what one run of the script reads, all source files
\* together: the devices, memory blocks and groups, and the signals.
MaxNodes == 5
MaxSignals == 2
\* One run of merge_json reads at most MaxFragments fragments, whose lists
\* have at most MaxItems items all together.
MaxFragments == 3
MaxItems == 4

\* The key pairs of earlier runs whose files may be on the disk when
\* create-certificate-request.py starts.
MaxKeys == 3

\* ------------------------------------------------------- absent JSON keys
\* dict.get(key, None) of an absent string key.
NONE == "<none>"
\* An optional integer key is <<>> when absent and <<v>> when present.
Get(opt, default) == IF opt = <<>> THEN default ELSE opt[1]
GetStr(opt, default) == IF opt = NONE THEN default ELSE opt
\* str.upper() of the names the documents use.
upper(s) ==
    CASE s = "gina" -> "GINA"
      [] s = "unnamed_device" -> "UNNAMED_DEVICE"
      [] s = "exp" -> "EXP"
      [] s = "a" -> "A"
      [] s = "b" -> "B"
      [] OTHER -> s

\* A test that finds every list key present, as a get(key, []) would.
NoList_Never(key) == FALSE

\* The test "x == None" of a list key and of a name.
NoList(key) == key = <<>>
NoName(name) == name = NONE

\* The type table: size excludes the signal state byte.
osal_typeinfo ==
    [undef |-> 0, boolean |-> 1, char |-> 1, uchar |-> 1, short |-> 2,
     ushort |-> 2, int |-> 3, uint |-> 3, int64 |-> 8, long |-> 8,
     float |-> 4, double |-> 8, dec01 |-> 2, dec001 |-> 2, str |-> 1,
     object |-> 0, pointer |-> 0]

\* ------------------------------------------------------------ input sets
\* A run reads its documents from one of four families, so that the keys of
\* the outer levels and the keys of the signals vary without every
\* combination of them being explored:
\*   "schema": several devices and blocks; every key of a pin schema, device,
\*             block or group may be absent; a signal is an array "a" of 40
\*             or has no name;
\*   "layout": one complete device of one block of one or two groups; the
\*             groups have every role and the signals vary in every key;
\*   "types":  no pin schema, and one complete device of one block of one
\*             group of one signal, which declares any type of the type
\*             table, alone or as an array;
\*   "blocks": no pin schema, and one complete device of two blocks of one
\*             group each; a signal is the plain signal "a", an array of 40
\*             or at address 40.
Families == {"schema", "layout", "types", "blocks"}

DeviceNames(f) == IF f = "schema" THEN {NONE, "gina"} ELSE {"gina"}
BlockNames(f) == IF f = "schema" THEN {NONE, "exp"} ELSE {"exp"}
GroupNames(f) ==
    CASE f = "schema" -> {NONE, "conf"}
      [] f = "layout" -> {"inputs", "outputs", "conf"}
      [] f \in {"types", "blocks"} -> {"conf"}

\* A list key: <<>> when absent, <<n>> for a list of n elements.
ListKeys(f, max) ==
    (IF f = "schema" THEN {<<>>} ELSE {}) \cup {<<n>> : n \in 0..max}

\* The 'mblk' key of a device, when max more blocks may be read.
MblkKeys(f, max) ==
    CASE f = "schema" -> ListKeys(f, max)
      [] f = "blocks" -> {<<2>>}
      [] OTHER -> {<<1>>}

\* A group as process_mblk sees it: the length of its 'signals' list (<<>>
\* when the key is absent).  The group's name and the signals themselves are
\* read later, by process_group_block and by process_signal.
GroupShapes(f) ==
    [signals : IF f = "types" THEN {<<1>>} ELSE ListKeys(f, MaxSignals)]

\* The 'groups' key of a block, when max more groups may be read.
GroupsKeys(f, max) ==
    (IF f = "schema" THEN {<<>>} ELSE {})
    \cup {<<g>> : g \in UNION {[1..n -> GroupShapes(f)] :
                                 n \in CASE f = "schema" -> 0..max
                                         [] f = "layout" -> 1..2
                                         [] f \in {"types", "blocks"} -> {1}}}

SignalNames == {NONE, "a", "b"}
ArrayValues == {<<>>, <<0>>, <<9>>}
AddrValues == {<<>>, <<1>>, <<40>>}

\* A signal as written in the JSON: every key may be absent.  The signals of
\* the layout family differ from the plain signal "a" in one key, or are one
\* of two combinations: an array of a declared type, an unknown type at an
\* address.
PlainSignal == [name |-> "a", type |-> NONE, array |-> <<>>, addr |-> <<>>]
Signals(f) ==
    CASE f = "schema" ->
           {[PlainSignal EXCEPT !.name = NONE],
            [PlainSignal EXCEPT !.array = <<40>>]}
      [] f = "layout" ->
           {[PlainSignal EXCEPT !.name = x] : x \in SignalNames}
           \cup {[PlainSignal EXCEPT !.type = "bogus"]}
           \cup {[PlainSignal EXCEPT !.array = x] : x \in ArrayValues}
           \cup {[PlainSignal EXCEPT !.addr = x] : x \in AddrValues}
           \cup {[PlainSignal EXCEPT !.type = "int", !.array = <<4>>],
                 [PlainSignal EXCEPT !.type = "bogus", !.addr = <<40>>]}
      [] f = "types" ->
           {[PlainSignal EXCEPT !.type = t, !.array = x] :
                t \in DOMAIN osal_typeinfo, x \in {<<>>, <<4>>}}
      [] f = "blocks" ->
           {PlainSignal,
            [PlainSignal EXCEPT !.array = <<40>>],
            [PlainSignal EXCEPT !.addr = <<40>>]}

\* A lookup that gives an unknown type the width 0, as dict.get(type, 0) would.
typeinfo_lookup_Default(type) ==
    IF type \in DOMAIN osal_typeinfo THEN <<osal_typeinfo[type]>> ELSE <<0>>

\* osal_typeinfo[type]: <<width>>, or <<>> when the lookup raises KeyError.
typeinfo_lookup(type) ==
    IF type \in DOMAIN osal_typeinfo THEN <<osal_typeinfo[type]>> ELSE <<>>

\* A calc_signal_memory_sz that forgets the state byte of a non-boolean signal.
calc_signal_memory_sz_NoStateByte(type, array_n) ==
    IF type = "boolean" /\ array_n = 1
    THEN <<1>>
    ELSE LET type_sz == typeinfo_lookup(type)
         IN  IF type_sz = <<>> THEN <<>> ELSE <<array_n * type_sz[1]>>

\* calc_signal_memory_sz: <<bytes>>, or <<>> when it raises KeyError.  The
\* packed boolean formula follows "return 1" inside the "array_n == 1" branch
\* and is never executed, so a boolean array falls through to the general
\* formula.
calc_signal_memory_sz(type, array_n) ==
    IF type = "boolean" /\ array_n = 1
    THEN <<1>>
    ELSE LET type_sz == typeinfo_lookup(type)
         IN  IF type_sz = <<>> THEN <<>> ELSE <<array_n * type_sz[1] + 1>>

\* ------------------------------------------------------------------ state
VARIABLES
    pc,            \* where the script is: main, file, mblk, group, signal, done, abort
    err,           \* why the script stopped ("" while it runs)
    family,        \* the family of documents the run reads
    pinlist,       \* signal name -> pin reference
    files,         \* source files processed so far
    nodes,         \* devices, memory blocks and groups met so far
    device_name,
    mblks,         \* memory blocks of the device still to process
    mblk_nr, nro_mblks,
    block_name, handle,
    groups,        \* the groups of the block being compiled
    gi,            \* index in groups of the group being compiled (0: none yet)
    sigs,          \* signals of the group still to process
    group_name,
    current_type, current_addr, max_addr,
    signal_nr, nro_signals,
    define_list, mblk_list, array_list,
    cfile, hfile,  \* tokens written to the C source and the C header
    read,          \* history: one record per device, block and group read
    trace          \* history: one record per signal read by process_signal

layout == <<current_type, current_addr, max_addr, signal_nr, nro_signals>>
lists == <<define_list, mblk_list, array_list>>
where == <<files, nodes, device_name, mblks, mblk_nr, nro_mblks, block_name, handle,
           groups, gi, sigs, group_name>>
b2cvars == <<pc, err, family, pinlist, where, layout, lists, cfile, hfile, read, trace>>

\* The state of scripts/merge_json.py, which is a program of its own.
VARIABLES
    mjpc,          \* where merge_json is: idle, main, file, done, exit, crash
    mjfamily,      \* the family of fragments the run reads
    merged,        \* the merged document
    frags,         \* history: the fragments read so far, in order
    printed,       \* number of 'List item without name?' lines printed
    outfile        \* the document written to the output file (<<>>: not written)

mjvars == <<mjpc, mjfamily, merged, frags, printed, outfile>>

\* The state of extensions/tls/scripts/create-certificate-request.py, which
\* is a program of its own, and of the directory it writes to.
VARIABLES
    crpc,          \* where the script is: idle, start, check_reqfile,
                   \* check_privkey, write_reqfile, write_privkey, done, exit,
                   \* crash
    pkey,          \* the key pair generated by the run (0: none yet)
    disk,          \* the target directory: which directories exist, and the
                   \* key pair whose request is in the file reqfile and whose
                   \* private key is in the file privkey (<<>>: no such file)
    disk0,         \* history: the target directory when the script started
    crprinted      \* the messages printed

crvars == <<crpc, pkey, disk, disk0, crprinted>>
vars == <<b2cvars, mjvars, crvars>>

\* merge_json is not running.
MjIdle ==
    /\ mjpc = "idle" /\ mjfamily = "none"
    /\ merged = <<>> /\ frags = <<>> /\ printed = 0 /\ outfile = <<>>

\* create-certificate-request.py is not running.
NoDisk == [dirs |-> "none", reqfile |-> <<>>, privkey |-> <<>>]
CrIdle ==
    /\ crpc = "idle" /\ pkey = 0
    /\ disk = NoDisk /\ disk0 = NoDisk /\ crprinted = <<>>

\* ------------------------------------------------------------- documents
\* A counting loop that looks at the first group of the block only.
CountSignals_FirstGroup(gs) ==
    IF gs = <<>> THEN 0 ELSE Get(Head(gs).signals, 0)

RECURSIVE CountSignals(_)
\* The counting loop of process_mblk: groups without 'signals' count nothing.
CountSignals(gs) ==
    IF gs = <<>> THEN 0
    ELSE Get(Head(gs).signals, 0) + CountSignals(Tail(gs))

\* The pin schemas offered to the script: a pins file naming pin "a" (and one
\* pin without a name), a pins file without 'io', and no -p option.  An
\* optional list is <<>> when absent and <<list>> when present.
PinsFileA ==
    [given |-> TRUE,
     io |-> << <<[prefix |-> NONE,
                  groups |-> <<[name |-> "inputs",
                                pins |-> << <<[name |-> "a"], [name |-> NONE]>> >>],
                               [name |-> "aux", pins |-> <<>>]>>]>> >>]
PinsFiles(f) ==
    CASE f = "schema" -> {PinsFileA, [given |-> TRUE, io |-> <<>>]}
      [] f = "layout" -> {PinsFileA}
      [] f \in {"types", "blocks"} -> {[given |-> FALSE, io |-> <<>>]}

RECURSIVE list_pins(_, _, _, _)
\* The loop over the pins of one group: named pins are put in the map.
list_pins(pl, prefix, pingroup_name, pins) ==
    IF pins = <<>> THEN pl
    ELSE LET name == Head(pins).name
             pl1 == IF name = NONE THEN pl
                    ELSE [n \in DOMAIN pl \cup {name} |->
                            IF n = name THEN <<"&", prefix, pingroup_name, name>>
                            ELSE pl[n]]
         IN  list_pins(pl1, prefix, pingroup_name, Tail(pins))

RECURSIVE list_pins_groups(_, _, _)
\* The loop over the groups of one root block: groups without 'pins' are skipped.
list_pins_groups(pl, prefix, gs) ==
    IF gs = <<>> THEN pl
    ELSE LET g == Head(gs)
             pl1 == IF g.pins = <<>> THEN pl
                    ELSE list_pins(pl, prefix, g.name, g.pins[1])
         IN  list_pins_groups(pl1, prefix, Tail(gs))

\* A pin listing that reads no root block.
list_pins_rootblocks_None(pl, rootblocks) == pl

RECURSIVE list_pins_rootblocks(_, _)
list_pins_rootblocks(pl, rootblocks) ==
    IF rootblocks = <<>> THEN pl
    ELSE list_pins_rootblocks(
             list_pins_groups(pl, GetStr(Head(rootblocks).prefix, "pins"),
                              Head(rootblocks).groups),
             Tail(rootblocks))

\* ------------------------------------------------------------------- init
Init ==
    /\ pc = "main" /\ err = ""
    /\ family \in Families
    /\ pinlist = <<>>
    /\ files = 0 /\ nodes = 0 /\ device_name = NONE
    /\ mblks = 0 /\ mblk_nr = 0 /\ nro_mblks = 0
    /\ block_name = NONE /\ handle = NONE
    /\ groups = <<>> /\ gi = 0 /\ sigs = 0 /\ group_name = NONE
    /\ current_type = NONE /\ current_addr = 0 /\ max_addr = 0
    /\ signal_nr = 0 /\ nro_signals = 0
    /\ define_list = <<>> /\ mblk_list = <<>> /\ array_list = <<>>
    /\ cfile = <<>> /\ hfile = <<>>
    /\ read = <<>> /\ trace = <<>>
    /\ MjIdle
    /\ CrIdle

\* What the history keeps of a device, block or group: its 'name' key and
\* its list key ('mblk', 'groups', 'signals'), as written in the document.
ReadRec(k, name, list) == [k |-> k, name |-> name, list |-> list]

Abort(why) == pc' = "abort" /\ err' = why


\* ----------------------------------------------------------------- mymain
\* mymain up to the loop over the source files: the command line is read
\* (n: whether it names a source file), the pin map is built and the two
\* files are started.
MyMain ==
    /\ UNCHANGED <<family, mjvars, crvars>>
    /\ pc = "main"
    /\ \E n \in (IF family = "schema" THEN {0} ELSE {}) \cup {1},
          pf \in PinsFiles(family) :
         IF n < 1
         THEN /\ Abort("No source files")
              /\ UNCHANGED <<pinlist, where, cfile, hfile>>
         ELSE IF pf.given /\ NoList(pf.io)
         THEN /\ Abort("'io' not found")
              /\ UNCHANGED <<pinlist, where, cfile, hfile>>
         ELSE /\ pinlist' = IF pf.given THEN list_pins_rootblocks(<<>>, Get(pf.io, <<>>))
                            ELSE <<>>
              /\ files' = 0
              /\ cfile' = <<[k |-> "banner"]>>
              /\ hfile' = <<[k |-> "banner"]>>
              /\ pc' = "file"
              /\ UNCHANGED <<err, nodes, device_name, mblks, mblk_nr, nro_mblks,
                             block_name, handle, groups, gi, sigs, group_name>>
    /\ UNCHANGED <<layout, lists, read, trace>>

\* finish_c_files, after the last source file.
FinishCFiles ==
    /\ UNCHANGED <<family, mjvars, crvars>>
    /\ pc = "file" /\ files > 0
    /\ hfile' = Append(hfile, [k |-> "ends"])
    /\ pc' = "done"
    /\ UNCHANGED <<err, pinlist, where, layout, lists, cfile, read, trace>>

\* ---------------------------------------------------- process_source_file
\* process_source_file, for the next source file of the command line, up to
\* the loop over the memory blocks.
ProcessSourceFile ==
    /\ UNCHANGED <<family, mjvars, crvars>>
    /\ pc = "file"
    /\ family # "schema" => files = 0
    /\ \E name \in DeviceNames(family),
          mb \in MblkKeys(family, MaxNodes - nodes - 1) :
         /\ nodes' = nodes + 1 + Get(mb, 0)
         /\ read' = Append(read, ReadRec("dev", name, mb))
         /\ device_name' = GetStr(name, "unnamed_device")
         /\ IF NoList(mb)
            THEN /\ Abort("'mblk' not found")
                 /\ UNCHANGED <<mblks, mblk_nr, nro_mblks, lists, cfile, hfile>>
            ELSE /\ define_list' = <<>>
                 /\ hfile' = Append(hfile, [k |-> "typedef", name |-> device_name'])
                 /\ cfile' = Append(cfile, [k |-> "dev", name |-> device_name'])
                 /\ mblk_nr' = 1
                 /\ nro_mblks' = Get(mb, 0)
                 /\ mblks' = Get(mb, 0)
                 /\ mblk_list' = <<>>
                 /\ array_list' = <<>>
                 /\ pc' = "mblk"
                 /\ UNCHANGED err
    /\ UNCHANGED <<pinlist, files, block_name, handle, groups, gi, sigs,
                   group_name, layout, trace>>

RECURSIVE Tokens(_, _)
\* One token of kind k per element of a list.
Tokens(k, list) ==
    IF list = <<>> THEN <<>>
    ELSE <<[k |-> k, v |-> Head(list)]>> \o Tokens(k, Tail(list))

\* process_source_file after the loop over the memory blocks.
EndSourceFile ==
    /\ UNCHANGED <<family, mjvars, crvars>>
    /\ pc = "mblk" /\ mblks = 0
    /\ hfile' = hfile \o <<[k |-> "typedefend", name |-> device_name]>>
                      \o Tokens("define", define_list)
                      \o <<[k |-> "extern", name |-> device_name]>>
                      \o <<[k |-> "externhdr", name |-> device_name]>>
                      \o Tokens("arraydefine", array_list)
    /\ cfile' = cfile \o <<[k |-> "devend"]>>
                      \o <<[k |-> "mblk_list", name |-> device_name, v |-> mblk_list]>>
                      \o <<[k |-> "hdr", name |-> device_name]>>
    /\ files' = files + 1
    /\ pc' = "file"
    /\ UNCHANGED <<err, pinlist, nodes, device_name, mblks, mblk_nr, nro_mblks,
                   block_name, handle, groups, gi, sigs, group_name,
                   layout, lists, read, trace>>


\* ------------------------------------------------------------ process_mblk
\* The tokens of one kind written to a file so far, in order.
OfKind(file, k) == SelectSeq(file, LAMBDA t : t.k = k)
CountKind(file, k) == Len(OfKind(file, k))

\* A block that starts where the cursor of the previous block stopped.
ResetCursor_Keep(cursor) == cursor

\* process_mblk: current_addr = 0.
ResetCursor(cursor) == 0

\* A block that starts with the ceiling of the previous block.
ResetMaxAddr_Keep(max) == IF max < 32 THEN 32 ELSE max

\* process_mblk: max_addr = 32.
ResetMaxAddr(max) == 32

\* A block directory that lists a block name of a device once only.
mblk_list_append_Unique(list, device, block) ==
    IF \E i \in 1..Len(list) : list[i] = <<device, block>> THEN list
    ELSE Append(list, <<device, block>>)

\* mblk_list.append(device_name + '.' + block_name)
mblk_list_append(list, device, block) == Append(list, <<device, block>>)

\* process_mblk up to the loop that compiles the groups.
ProcessMblk ==
    /\ UNCHANGED <<family, mjvars, crvars>>
    /\ pc = "mblk" /\ mblks > 0
    /\ \E name \in BlockNames(family),
          gs \in GroupsKeys(family, MaxNodes - nodes) :
         /\ nodes' = nodes + Len(Get(gs, <<>>))
         /\ read' = Append(read,
                ReadRec("mblk", name, IF gs = <<>> THEN <<>> ELSE <<Len(gs[1])>>))
         /\ gs # <<>> => CountSignals(gs[1]) <= MaxSignals - Len(trace)
         /\ block_name' = GetStr(name, "MBLK")
         /\ handle' = "OS_NULL"
         /\ IF NoList(gs)
            THEN /\ Abort("'groups' not found")
                 /\ UNCHANGED <<groups, gi, mblk_list, layout, cfile, hfile>>
            ELSE /\ mblk_list' = mblk_list_append(mblk_list, device_name, block_name')
                 /\ current_addr' = ResetCursor(current_addr)
                 /\ max_addr' = ResetMaxAddr(max_addr)
                 /\ signal_nr' = 1
                 /\ nro_signals' = CountSignals(Get(gs, <<>>))
                 /\ hfile' = Append(hfile, [k |-> "struct"])
                 /\ cfile' = Append(cfile,
                        [k |-> "mblk", handle |-> handle', n |-> nro_signals',
                         sz |-> <<upper(device_name), upper(block_name'), "MBLK_SZ">>])
                 /\ groups' = Get(gs, <<>>)
                 /\ gi' = 0
                 /\ pc' = "group"
                 /\ UNCHANGED <<err, current_type>>
    /\ UNCHANGED <<pinlist, files, device_name, mblks, mblk_nr, nro_mblks,
                   sigs, group_name, define_list, array_list, trace>>

\* process_mblk after the loop over the groups.
EndMblk ==
    /\ UNCHANGED <<family, mjvars, crvars>>
    /\ pc = "group" /\ gi = Len(groups)
    /\ hfile' = Append(hfile, [k |-> "structend", name |-> block_name])
    /\ define_list' = Append(define_list,
           [name |-> <<upper(device_name), upper(block_name), "MBLK_SZ">>,
            v |-> max_addr])
    /\ cfile' = Append(cfile, [k |-> "mblkend", comma |-> mblk_nr < nro_mblks])
    /\ mblk_nr' = mblk_nr + 1
    /\ mblks' = mblks - 1
    /\ pc' = "mblk"
    /\ UNCHANGED <<err, pinlist, files, nodes, device_name, nro_mblks,
                   block_name, handle, groups, gi, sigs, group_name, layout,
                   mblk_list, array_list, read, trace>>

\* ----------------------------------------------------- process_group_block
\* A default type that knows the role 'inputs' only.
GroupDefaultType_InputsOnly(name) ==
    IF name = "inputs" THEN "boolean" ELSE "ushort"

\* The default type of a group.
GroupDefaultType(name) ==
    IF name = "inputs" \/ name = "outputs" THEN "boolean" ELSE "ushort"

\* process_group_block up to the loop over the signals; a group with an empty
\* signal list is finished at once.
ProcessGroupBlock ==
    /\ UNCHANGED <<family, mjvars, crvars>>
    /\ pc = "group" /\ gi < Len(groups)
    /\ \E name \in GroupNames(family) :
       LET signals == groups[gi + 1].signals IN
         /\ gi' = gi + 1
         /\ read' = Append(read, ReadRec("group", name, signals))
         /\ IF NoName(name)
            THEN /\ Abort("'name' not found for group")
                 /\ UNCHANGED <<group_name, sigs, current_type>>
            ELSE IF NoList(signals)
            THEN /\ Abort("'signals' not found")
                 /\ group_name' = name
                 /\ UNCHANGED <<sigs, current_type>>
            ELSE /\ group_name' = name
                 /\ current_type' = GroupDefaultType(name)
                 /\ sigs' = Get(signals, 0)
                 /\ pc' = IF sigs' = 0 THEN "group" ELSE "signal"
                 /\ UNCHANGED err
    /\ UNCHANGED <<pinlist, files, nodes, device_name, mblks, mblk_nr,
                   nro_mblks, block_name, handle, groups, current_addr, max_addr,
                   signal_nr, nro_signals, lists, cfile, hfile, trace>>


\* ---------------------------------------------------------- process_signal
\* An array_list that holds one constant per name.
array_list_append_Once(list, device, block, signal_name, array_n) ==
    LET name == <<upper(device), upper(block), upper(signal_name), "ARRAY_SZ">>
    IN  IF array_n > 1 /\ \A i \in 1..Len(list) : list[i].name # name
        THEN Append(list, [name |-> name, v |-> array_n])
        ELSE list

\* write_signal_to_c_source: the size constant of an array is put on
\* array_list.
array_list_append(list, device, block, signal_name, array_n) ==
    LET name == <<upper(device), upper(block), upper(signal_name), "ARRAY_SZ">>
    IN  IF array_n > 1
        THEN Append(list, [name |-> name, v |-> array_n])
        ELSE list

\* A SignalAddr that never moves the cursor backward.
SignalAddr_ForwardOnly(signal, cursor) ==
    IF Get(signal.addr, cursor) < cursor THEN cursor ELSE Get(signal.addr, cursor)

\* A SignalAddr that places every signal without 'addr' at the block's start.
SignalAddr_NoCursor(signal, cursor) == Get(signal.addr, 0)

\* The address a signal is placed at: its 'addr', else the cursor.
SignalAddr(signal, cursor) == Get(signal.addr, cursor)

\* A SignalType that never looks at the signal's own 'type'.
SignalType_Ignored(signal, type) == type

\* The type of a signal: its 'type', else the current type.
SignalType(signal, type) == GetStr(signal.type, type)

\* An array length that is not clamped.
SignalArrayN_Unclamped(signal) == Get(signal.array, 1)

\* The array length of a signal: its 'array', else 1; at least 1.
SignalArrayN(signal) ==
    LET array_n == Get(signal.array, 1) IN IF array_n < 1 THEN 1 ELSE array_n

\* A ceiling that follows the cursor instead of keeping the maximum.
RaiseMaxAddr_Assign(cursor, max) == cursor

\* The ceiling after the cursor has moved.
RaiseMaxAddr(cursor, max) == IF cursor > max THEN cursor ELSE max

\* A write_signal_to_c_header that writes a field name once only.
write_signal_to_c_header_Unique(file, signal_name) ==
    IF \E i \in 1..Len(file) : file[i] = [k |-> "field", name |-> signal_name]
    THEN file
    ELSE Append(file, [k |-> "field", name |-> signal_name])

\* A write_signal_to_c_header that leaves out the field of signal "b".
write_signal_to_c_header_Skip(file, signal_name) ==
    IF signal_name = "b" THEN file
    ELSE Append(file, [k |-> "field", name |-> signal_name])

\* write_signal_to_c_header: one field of the block's struct.
write_signal_to_c_header(file, signal_name) ==
    Append(file, [k |-> "field", name |-> signal_name])

\* The descriptor write_signal_to_c_source writes for a signal.
Descriptor(addr, array_n, type, signal_name) ==
    [k |-> "sig",
     first |-> signal_nr = 1,
     addr |-> addr, n |-> array_n, type |-> type, handle |-> handle,
     pin |-> IF signal_name \in DOMAIN pinlist THEN pinlist[signal_name]
             ELSE <<"OS_NULL">>,
     comma |-> signal_nr < nro_signals,
     name |-> signal_name]

\* What the history keeps of one signal read by process_signal.
TraceRec(signal, out, addr, type, array_n, sz, cursor, max, desc) ==
    [blk |-> CountKind(cfile, "mblk"), desc |-> desc,
     gi |-> gi, gname |-> group_name, sig |-> signal, out |-> out,
     addr |-> addr, type |-> type, n |-> array_n, sz |-> sz,
     before |-> current_addr, cursor |-> cursor, max |-> max]

\* process_signal for the next signal of the group: the field is written to
\* the header, then write_signal_to_c_source lays the signal out and writes
\* its descriptor.
ProcessSignal ==
    /\ UNCHANGED <<family, mjvars, crvars>>
    /\ pc = "signal" /\ sigs > 0
    /\ \E signal \in Signals(family) :
         IF NoName(signal.name)
         THEN /\ Abort("'name' not found for signal")
              /\ trace' = Append(trace,
                     TraceRec(signal, "noname", current_addr, current_type, 0,
                              <<>>, current_addr, max_addr, [k |-> "none"]))
              /\ UNCHANGED <<sigs, layout, array_list, cfile, hfile>>
         ELSE LET addr == SignalAddr(signal, current_addr)
                  type == SignalType(signal, current_type)
                  array_n == SignalArrayN(signal)
                  sz == calc_signal_memory_sz(type, array_n)
              IN  /\ hfile' = write_signal_to_c_header(hfile, signal.name)
                  /\ current_type' = type
                  /\ array_list' = array_list_append(array_list, device_name,
                                           block_name, signal.name, array_n)
                  /\ IF sz = <<>>
                     THEN /\ Abort("KeyError")
                          /\ current_addr' = addr
                          /\ trace' = Append(trace,
                                 TraceRec(signal, "keyerror", addr, type, array_n,
                                          sz, addr, max_addr, [k |-> "none"]))
                          /\ UNCHANGED <<sigs, max_addr, signal_nr, cfile>>
                     ELSE /\ current_addr' = addr + sz[1]
                          /\ max_addr' = RaiseMaxAddr(current_addr', max_addr)
                          /\ cfile' = Append(cfile,
                                 Descriptor(addr, array_n, type, signal.name))
                          /\ signal_nr' = signal_nr + 1
                          /\ trace' = Append(trace,
                                 TraceRec(signal, "ok", addr, type, array_n, sz,
                                          current_addr', max_addr',
                                          Descriptor(addr, array_n, type, signal.name)))
                          /\ sigs' = sigs - 1
                          /\ pc' = IF sigs' = 0 THEN "group" ELSE "signal"
                          /\ UNCHANGED err
    /\ UNCHANGED <<pinlist, files, nodes, device_name, mblks, mblk_nr,
                   nro_mblks, block_name, handle, groups, gi, group_name,
                   nro_signals, read,
                   define_list, mblk_list>>

\* ------------------------------------------------------------------- spec
Next ==
    \/ MyMain
    \/ ProcessSourceFile
    \/ ProcessMblk
    \/ ProcessGroupBlock
    \/ ProcessSignal
    \/ EndMblk
    \/ EndSourceFile
    \/ FinishCFiles

Spec == Init /\ [][Next]_vars


\* ================================================================= claims
\* The descriptors written to the runtime stream, in the order written.  A
\* run stops at the first signal it cannot compile, so the i-th descriptor is
\* the descriptor of trace[i].
Descs ==
    LET n == Len(trace)
        ok == IF n > 0 /\ trace[n].out # "ok" THEN n - 1 ELSE n
    IN  [i \in 1..ok |-> trace[i].desc]

\* The footprint of the signal of the i-th descriptor.
Footprint(i) == calc_signal_memory_sz(Descs[i].type, Descs[i].n)[1]

\* The index in trace of the first signal of the block of trace[i].
BlockStart(i) == CHOOSE j \in 1..i :
    /\ trace[j].blk = trace[i].blk
    /\ \A h \in 1..(j - 1) : trace[h].blk # trace[i].blk

RECURSIVE SumFootprints(_, _)
\* The sum of the footprints of the signals j .. i-1.
SumFootprints(j, i) ==
    IF j >= i THEN 0 ELSE Footprint(j) + SumFootprints(j + 1, i)

NoAddr(i) == trace[i].sig.addr = <<>>

\* C1, as stated: the address of every signal without 'addr' is the sum of
\* the footprints of all signals that precede it in its block.
C1_AddrIsSumOfPreceding ==
    \A i \in 1..Len(Descs) :
        NoAddr(i) => Descs[i].addr = SumFootprints(BlockStart(i), i)

\* C1, amended: a signal without 'addr' is at 0 when it is the first of its
\* block and otherwise at the previous signal's address plus the previous
\* signal's footprint; that is the sum of the footprints of the preceding
\* signals of the block when none of them has an 'addr'.
C1_Contiguous ==
    \A i \in 1..Len(Descs) :
        NoAddr(i) =>
            /\ i = BlockStart(i) => Descs[i].addr = 0
            /\ i > BlockStart(i) =>
                   Descs[i].addr = Descs[i - 1].addr + Footprint(i - 1)
            /\ (\A j \in BlockStart(i)..(i - 1) : NoAddr(j)) =>
                   Descs[i].addr = SumFootprints(BlockStart(i), i)

\* A second signal of a block, without 'addr', laid out after an array.
C1_Witness ==
    \E i \in 2..Len(Descs) :
        /\ BlockStart(i) < i /\ NoAddr(i) /\ NoAddr(i - 1)
        /\ Descs[i - 1].n > 1 /\ Descs[i].addr = Footprint(i - 1)

\* C2: a boolean signal takes 1 byte when its array length is 1 and
\* ceil(n / 8) + 1 bytes when its array length n is greater, and the cursor
\* advances by that amount.
C2_BooleanPacked ==
    \A i \in 1..Len(Descs) :
        Descs[i].type = "boolean" =>
            LET n == Descs[i].n
                bytes == IF n = 1 THEN 1 ELSE ((n + 7) \div 8) + 1
            IN  /\ calc_signal_memory_sz("boolean", n) = <<bytes>>
                /\ trace[i].cursor = Descs[i].addr + bytes

\* C3: a signal of a non-boolean type of the type table takes n * width + 1
\* bytes, width being the type's entry in the table; an int array of 4 takes
\* 13 bytes.
C3_NonBooleanFootprint ==
    \A i \in 1..Len(Descs) :
        Descs[i].type # "boolean" =>
            /\ Descs[i].type \in DOMAIN osal_typeinfo
            /\ trace[i].sz = <<Descs[i].n * osal_typeinfo[Descs[i].type] + 1>>
            /\ trace[i].cursor = Descs[i].addr + trace[i].sz[1]
            /\ (Descs[i].type = "int" /\ Descs[i].n = 4) => trace[i].sz = <<13>>

\* An int array of 4 has been laid out.
C3_Witness ==
    \E i \in 1..Len(Descs) :
        /\ Descs[i].type = "int" /\ Descs[i].n = 4
        /\ trace[i].cursor - Descs[i].addr = 13


\* The block sizes emitted so far, one per compiled block of the run in
\* block order: the MBLK_SZ defines written to the header, then those of
\* define_list still to be written for the device being compiled.
MblkSz ==
    LET written == OfKind(hfile, "define")
        pending == IF CountKind(hfile, "typedefend") < CountKind(hfile, "typedef")
                   THEN define_list ELSE <<>>
    IN  [k \in 1..Len(written) |-> written[k].v] \o pending

\* The index in trace of the last signal of block k, 0 when it has none.
BlockLast(k) ==
    IF \E i \in 1..Len(Descs) : trace[i].blk = k
    THEN CHOOSE i \in 1..Len(Descs) :
             /\ trace[i].blk = k
             /\ \A j \in (i + 1)..Len(Descs) : trace[j].blk # k
    ELSE 0

\* C4: the ceiling of a block starts at 32, never decreases and is at least
\* the end address of every signal laid out; the block size emitted is the
\* final ceiling, at least 32 and at least every signal's end address, signals
\* with an explicit 'addr' included.
C4_Ceiling ==
    /\ pc \in {"group", "signal"} => max_addr >= 32
    /\ \A i \in 1..Len(Descs) :
          /\ trace[i].max >= 32
          /\ trace[i].max >= Descs[i].addr + Footprint(i)
          /\ i > BlockStart(i) => trace[i].max >= trace[i - 1].max
    /\ LET sizes == MblkSz
       IN  \A k \in 1..Len(sizes) :
             LET last == BlockLast(k)
             IN  /\ sizes[k].v >= 32
                 /\ sizes[k].v = IF last = 0 THEN 32 ELSE trace[last].max
                 /\ \A i \in 1..Len(Descs) :
                       trace[i].blk = k => sizes[k].v >= Descs[i].addr + Footprint(i)

\* A compiled block that an explicit 'addr' has made larger than 32 bytes,
\* with a later signal that ends below the ceiling.
C4_Witness ==
    \E k \in 1..Len(MblkSz) :
        /\ MblkSz[k].v > 32
        /\ \E i \in 1..Len(Descs) : trace[i].blk = k /\ ~NoAddr(i)
        /\ BlockLast(k) > 0 /\ trace[BlockLast(k)].cursor < MblkSz[k].v

\* The default type of a group by its role.
RoleDefault(gname) ==
    IF gname \in {"inputs", "outputs"} THEN "boolean" ELSE "ushort"

\* trace[i] is the first signal read of its group.
FirstOfGroup(i) ==
    \/ i = 1
    \/ trace[i - 1].blk # trace[i].blk
    \/ trace[i - 1].gi # trace[i].gi

\* C5, as stated: the type of a signal is its own 'type' and otherwise the
\* default type of its group, whatever earlier signals of the group declared.
C5_OwnTypeOrGroupDefault ==
    \A i \in 1..Len(Descs) :
        Descs[i].type = IF trace[i].sig.type # NONE THEN trace[i].sig.type
                        ELSE RoleDefault(trace[i].gname)

RECURSIVE InheritedType(_)
\* The type declared by the nearest signal up to trace[i] of the group of
\* trace[i], and the group default when none declares one.
InheritedType(i) ==
    IF trace[i].sig.type # NONE THEN trace[i].sig.type
    ELSE IF FirstOfGroup(i) THEN RoleDefault(trace[i].gname)
    ELSE InheritedType(i - 1)

\* C5, amended: the type of a signal is its own 'type' when it declares one,
\* otherwise the type declared by the nearest preceding signal of the same
\* group that declares one, and the group default when none does.
C5_OwnTypeOrInherited ==
    \A i \in 1..Len(Descs) : Descs[i].type = InheritedType(i)

\* In a group 'inputs', a signal without 'type' after a signal of type int.
C5_Witness ==
    \E i \in 2..Len(Descs) :
        /\ ~FirstOfGroup(i) /\ trace[i].gname = "inputs"
        /\ trace[i - 1].sig.type = "int" /\ trace[i].sig.type = NONE
        /\ Descs[i].type = "int"

\* C6: when a group starts, the current type is the default of the group's
\* role, boolean for 'inputs' and 'outputs' and the 2-byte ushort otherwise,
\* whatever type earlier groups and blocks used.
C6_GroupDefault ==
    /\ (pc = "signal" /\ sigs = Get(groups[gi].signals, 0)) =>
           current_type = RoleDefault(group_name)
    /\ \A i \in 1..Len(trace) :
          (FirstOfGroup(i) /\ trace[i].out # "noname" /\ trace[i].sig.type = NONE) =>
              /\ trace[i].type = RoleDefault(trace[i].gname)
              /\ trace[i].type = "ushort" => trace[i].sz = <<2 * trace[i].n + 1>>

\* The first signal of a group 'outputs' declares no type and follows a group
\* whose last signal was of type int.
C6_Witness ==
    \E i \in 2..Len(Descs) :
        /\ FirstOfGroup(i) /\ trace[i - 1].blk = trace[i].blk
        /\ trace[i - 1].type = "int" /\ trace[i].sig.type = NONE
        /\ trace[i].gname = "outputs" /\ Descs[i].type = "boolean"


RECURSIVE Segs(_, _, _, _)
\* The names of the item tokens among the first n tokens of a file, one
\* sequence per opening token: the items written after it and before the next.
Segs(file, open, item, n) ==
    IF n = 0 THEN <<>>
    ELSE LET prev == Segs(file, open, item, n - 1)
             t == file[n]
         IN  IF t.k = open THEN Append(prev, <<>>)
             ELSE IF t.k = item /\ prev # <<>>
             THEN [prev EXCEPT ![Len(prev)] = Append(@, t.name)]
             ELSE prev

\* Per block of the run: the field names of the structural stream, the
\* descriptor names of the runtime stream.
FieldNames == Segs(hfile, "struct", "field", Len(hfile))
DescNames == Segs(cfile, "mblk", "sig", Len(cfile))

RECURSIVE SignalNamesOf(_, _)
\* The names of the signals of block k among the first n signals read.
SignalNamesOf(k, n) ==
    IF n = 0 THEN <<>>
    ELSE IF trace[n].blk = k
    THEN Append(SignalNamesOf(k, n - 1), trace[n].sig.name)
    ELSE SignalNamesOf(k, n - 1)

\* C7: after a successful compilation, the field names of every block are
\* the descriptor names of the block, both the names of the block's signals
\* in declaration order, one field and one descriptor per signal, arrays
\* included.
C7_StreamsAgree ==
    pc = "done" =>
        /\ Len(FieldNames) = Len(DescNames)
        /\ \A k \in 1..Len(DescNames) :
              /\ FieldNames[k] = DescNames[k]
              /\ DescNames[k] = SignalNamesOf(k, Len(trace))

\* A successful compilation of a block of an array "a" and a signal "b".
C7_Witness ==
    /\ pc = "done"
    /\ \E k \in 1..Len(DescNames) : DescNames[k] = <<"a", "b">>
    /\ \E i \in 1..Len(Descs) : Descs[i].n > 1

\* C8, as stated: a signal whose type is not in the type table stops the
\* compilation, no footprint is computed, the cursor is where it was before
\* the signal and no descriptor is written for it or after it.
C8_CursorUntouched ==
    \A i \in 1..Len(trace) :
        (trace[i].out # "noname" /\ trace[i].type \notin DOMAIN osal_typeinfo) =>
            /\ i = Len(trace)
            /\ pc = "abort" /\ err = "KeyError"
            /\ trace[i].sz = <<>>
            /\ current_addr = trace[i].before
            /\ Len(Descs) = i - 1

\* C8, amended: a signal whose type is not in the type table stops the
\* compilation: no footprint is computed, the cursor is left at the signal's
\* start address (its 'addr' when it has one, else where the cursor was) and
\* no descriptor is written for it or after it.
C8_UnknownTypeAborts ==
    \A i \in 1..Len(trace) :
        (trace[i].out # "noname" /\ trace[i].type \notin DOMAIN osal_typeinfo) =>
            /\ i = Len(trace)
            /\ pc = "abort" /\ err = "KeyError"
            /\ trace[i].sz = <<>>
            /\ current_addr = Get(trace[i].sig.addr, trace[i].before)
            /\ Len(Descs) = i - 1
            /\ CountKind(cfile, "sig") = i - 1

\* The second signal of a block is of an unknown type and has an 'addr'.
C8_Witness ==
    /\ Len(trace) = 2 /\ trace[2].type = "bogus" /\ trace[1].blk = trace[2].blk
    /\ trace[2].sig.addr # <<>> /\ trace[1].out = "ok"
    /\ pc = "abort"

\* A device, block or group read lacks a key the claim requires.
KeyMissing(r) ==
    \/ r.k = "dev" /\ r.name = NONE
    \/ r.k = "mblk" /\ r.list = <<>>
    \/ r.k = "group" /\ r.list = <<>>

\* C9, as stated: the compilation stops at once when a device has no 'name',
\* a block no 'groups', a group no 'signals' or a signal no 'name'.
C9_MissingKeyAborts ==
    /\ \A i \in 1..Len(read) :
          KeyMissing(read[i]) => pc = "abort" /\ i = Len(read)
    /\ \A i \in 1..Len(trace) :
          trace[i].sig.name = NONE => pc = "abort" /\ i = Len(trace)

\* The tokens written for the devices, blocks, groups and signals read.
Written ==
    <<CountKind(cfile, "dev"), CountKind(cfile, "mblk"),
      CountKind(cfile, "sig"), CountKind(hfile, "field")>>

\* The devices and blocks read with their list key, the signals read with a
\* name and a known type, the signals read with a name.
Compilable ==
    <<Len(SelectSeq(read, LAMBDA r : r.k = "dev" /\ r.list # <<>>)),
      Len(SelectSeq(read, LAMBDA r : r.k = "mblk" /\ r.list # <<>>)),
      Len(SelectSeq(trace, LAMBDA t : t.out = "ok")),
      Len(SelectSeq(trace, LAMBDA t : t.out # "noname"))>>

\* C9, amended: the compilation stops at once, and writes nothing for the
\* object, when a block has no 'groups', a group no 'signals' or a signal no
\* 'name'; a device without 'name' is compiled under the name
\* "unnamed_device".
C9_MissingKeyAbortsOrDefault ==
    /\ \A i \in 1..Len(read) :
          /\ (read[i].k # "dev" /\ KeyMissing(read[i])) =>
                 pc = "abort" /\ i = Len(read)
          /\ (read[i].k = "dev" /\ read[i].name = NONE /\ i = Len(read)) =>
                 /\ device_name = "unnamed_device"
                 /\ read[i].list # <<>> => pc # "abort"
    /\ \A i \in 1..Len(trace) :
          trace[i].sig.name = NONE => pc = "abort" /\ i = Len(trace)
    /\ Written = Compilable

\* A device without 'name' is compiled under the default name up to a signal
\* without 'name', where the compilation stops.
C9_Witness ==
    /\ Len(read) = 3 /\ read[1].name = NONE /\ device_name = "unnamed_device"
    /\ Len(trace) = 2 /\ trace[2].sig.name = NONE /\ trace[1].out = "ok"
    /\ pc = "abort"

\* C10: no two descriptors of a block, and no two fields of a block, have
\* the same name.
C10_UniqueNames ==
    \A k \in 1..Len(DescNames) :
        /\ \A i, j \in 1..Len(DescNames[k]) :
              DescNames[k][i] = DescNames[k][j] => i = j
        /\ k <= Len(FieldNames) =>
              \A i, j \in 1..Len(FieldNames[k]) :
                  FieldNames[k][i] = FieldNames[k][j] => i = j


RECURSIVE Counts(_, _, _, _)
\* The number of item tokens among the first n tokens of a file, one number
\* per opening token: the items written after it and before the next.
Counts(file, open, item, n) ==
    IF n = 0 THEN <<>>
    ELSE LET prev == Counts(file, open, item, n - 1)
             t == file[n]
         IN  IF t.k = open THEN Append(prev, 0)
             ELSE IF t.k = item /\ prev # <<>>
             THEN [prev EXCEPT ![Len(prev)] = @ + 1]
             ELSE prev

RECURSIVE BlocksRead(_)
\* Per device read, in order: the names under which its blocks were read
\* (a block without 'name' is read as "MBLK"), among the first n records.
BlocksRead(n) ==
    IF n = 0 THEN <<>>
    ELSE LET prev == BlocksRead(n - 1)
             r == read[n]
         IN  IF r.k = "dev" THEN Append(prev, <<>>)
             ELSE IF r.k = "mblk"
             THEN [prev EXCEPT ![Len(prev)] = Append(@, GetStr(r.name, "MBLK"))]
             ELSE prev

\* The block directories and device headers written so far, one per device
\* whose compilation came to its end.
Directories == OfKind(cfile, "mblk_list")

\* C11: the block directory of a compiled device with k blocks holds k
\* references, one per block in declaration order; the device has k nested
\* struct types and k initializers, and its header, which counts the
\* elements of the directory of its name, counts k.
C11_BlockDirectory ==
    LET dirs == Directories
        devs == OfKind(read, "dev")
        read_blocks == BlocksRead(Len(read))
        structs == Counts(hfile, "typedef", "struct", Len(hfile))
        structends == Counts(hfile, "typedef", "structend", Len(hfile))
        inits == Counts(cfile, "dev", "mblk", Len(cfile))
        initends == Counts(cfile, "dev", "mblkend", Len(cfile))
        dir_counts == Counts(cfile, "dev", "mblk_list", Len(cfile))
        hdrs == OfKind(cfile, "hdr")
    IN  \A d \in 1..Len(dirs) :
            LET dir == dirs[d]
                k == devs[d].list[1]
                blocks == read_blocks[d]
            IN  /\ dir.name = GetStr(devs[d].name, "unnamed_device")
                /\ Len(dir.v) = k
                /\ Len(blocks) = k
                /\ \A i \in 1..k : dir.v[i] = <<dir.name, blocks[i]>>
                /\ structs[d] = k /\ structends[d] = k
                /\ inits[d] = k /\ initends[d] = k
                /\ dir_counts[d] = 1
                /\ hdrs[d].name = dir.name

\* A compiled device of two blocks of one name.
C11_Witness ==
    /\ pc = "done"
    /\ \E d \in 1..Len(Directories) :
          /\ Len(Directories[d].v) = 2
          /\ Directories[d].v[1] = Directories[d].v[2]


\* ============================================================ merge_json
\* scripts/merge_json.py: the JSON fragments named on the command line are
\* merged, left to right, into one document that starts empty.
\*
\* A JSON value is a record of its type t and its content v; the content of
\* an object is a function from its keys, the content of a list a sequence.
Null == [t |-> "null", v |-> 0]
Num(n) == [t |-> "num", v |-> n]
Str(s) == [t |-> "str", v |-> s]
Obj(d) == [t |-> "obj", v |-> d]
List(l) == [t |-> "list", v |-> l]

\* a == b of two JSON scalars.
Same(a, b) == a.t = b.t /\ a.v = b.v

\* dict.get(key, None) and dict[key] = value.
DictGet(d, key) == IF key \in DOMAIN d THEN d[key] ELSE Null
DictSet(d, key, value) ==
    [k \in DOMAIN d \cup {key} |-> IF k = key THEN value ELSE d[k]]

\* What a call gives back: whether it returned (ok) or raised an exception,
\* the object it worked on, and the number of lines it printed.
R(ok, v, n) == [ok |-> ok, v |-> v, n |-> n]

\* The keys of the documents, in the order a loop over items() meets them.
KeyOrder == <<"name", "x", "y", "o", "l">>

RECURSIVE merge_from(_, _, _)
RECURSIVE merge_items(_, _, _)
RECURSIVE mergelist_find(_, _, _, _)

\* A merge in which the last fragment that defines a scalar wins.
merge_scalar_LastWins(m, key, value) == DictSet(m, key, value)

\* merge, the key is merged already with a scalar: neither branch of lines
\* 16-21 is taken and the merged value stays.
merge_scalar(m, key, value) == m

\* A merge that matches no list entry by name.
NameMatches_Never(mname, name) == FALSE

\* mergelist: mname == name.
NameMatches(mname, name) == Same(mname, name)

\* A merge that finds a name on every list item.
NoItemName_Never(name) == FALSE

\* mergelist: name == None.
NoItemName(name) == name.t = "null"

\* mergelist(mlist, item).
mergelist(mlist, item) ==
    IF item.t # "obj" THEN R(FALSE, mlist, 0)
    ELSE LET name == DictGet(item.v, "name")
         IN  IF NoItemName(name) THEN R(TRUE, mlist, 1)
             ELSE mergelist_find(mlist, item, name, 1)

\* The body of the loop of merge for one item of di.
merge_item(m, key, value) ==
    LET mitem == DictGet(m, key)
    IN  IF mitem.t = "null"
        THEN R(TRUE, IF value.t # "null" THEN DictSet(m, key, value) ELSE m, 0)
        ELSE IF mitem.t = "list"
        THEN IF value.t = "list"
             THEN LET r == merge_items(mitem.v, value.v, 1)
                  IN  R(r.ok, DictSet(m, key, List(r.v)), r.n)
             ELSE IF value.t = "obj" /\ DOMAIN value.v = {}
             THEN R(TRUE, m, 0)
             ELSE R(FALSE, m, 0)
        ELSE IF mitem.t = "obj"
        THEN IF value.t = "obj"
             THEN LET r == merge_from(mitem.v, value.v, 1)
                  IN  R(r.ok, DictSet(m, key, Obj(r.v)), r.n)
             ELSE R(FALSE, m, 0)
        ELSE R(TRUE, merge_scalar(m, key, value), 0)

\* The loop of merge from the i-th key on; an exception ends it.
merge_from(m, di, i) ==
    IF i > Len(KeyOrder) THEN R(TRUE, m, 0)
    ELSE IF KeyOrder[i] \notin DOMAIN di THEN merge_from(m, di, i + 1)
    ELSE LET r == merge_item(m, KeyOrder[i], di[KeyOrder[i]])
         IN  IF ~r.ok THEN r
             ELSE LET q == merge_from(r.v, di, i + 1)
                  IN  R(q.ok, q.v, r.n + q.n)

\* merge(merged, di).
merge(m, di) == merge_from(m, di, 1)

\* The loop "for item in value: mergelist(mitem, item)" from the i-th item on.
merge_items(mlist, items, i) ==
    IF i > Len(items) THEN R(TRUE, mlist, 0)
    ELSE LET r == mergelist(mlist, items[i])
         IN  IF ~r.ok THEN r
             ELSE LET q == merge_items(r.v, items, i + 1)
                  IN  R(q.ok, q.v, r.n + q.n)

\* The loop of mergelist over the entries of mlist, from the j-th on, and the
\* append after it.
mergelist_find(mlist, item, name, j) ==
    IF j > Len(mlist) THEN R(TRUE, Append(mlist, item), 0)
    ELSE LET m == mlist[j]
         IN  IF m.t # "obj" THEN R(FALSE, mlist, 0)
             ELSE IF NameMatches(DictGet(m.v, "name"), name)
             THEN LET r == merge(m.v, item.v)
                  IN  R(r.ok, [mlist EXCEPT ![j] = Obj(r.v)], r.n)
             ELSE mergelist_find(mlist, item, name, j + 1)


\* ------------------------------------------------------------- fragments
\* The dicts of one optional key.
Opt(key, values) == {<<>>} \cup {key :> v : v \in values}

\* Dicts of scalars: keys x and y, absent, null or a number.
ScalarDicts(xs, ys) == {a @@ b : a \in Opt("x", xs), b \in Opt("y", ys)}

\* List entries: two of name "a" with different fields, one of name "b" and
\* one without name.
EntryA1 == Obj(("name" :> Str("a")) @@ ("x" :> Num(1)))
EntryA2 == Obj(("name" :> Str("a")) @@ ("x" :> Num(2)) @@ ("y" :> Num(2)))
EntryB == Obj("name" :> Str("b"))
EntryNoName == Obj("x" :> Num(2))
Entries == {EntryA1, EntryA2, EntryB, EntryNoName}

\* The lists of at most max entries, and of at most two.
Lists(max) == UNION {[1..n -> Entries] : n \in 0..(IF max < 2 THEN max ELSE 2)}

\* The number of list items of a fragment.
ItemsOf(data) ==
    IF "l" \in DOMAIN data /\ data["l"].t = "list" THEN Len(data["l"].v) ELSE 0

RECURSIVE ItemsRead(_)
ItemsRead(fs) == IF fs = <<>> THEN 0 ELSE ItemsOf(Head(fs)) + ItemsRead(Tail(fs))

\* The families of fragments: scalars under two keys; an object under "o";
\* a list under "l"; and values of every type, a list of numbers and an
\* object holding a list among them, under "l".
MjFamilies == {"scalar", "object", "list", "mixed"}
Fragments(f, max) ==
    CASE f = "scalar" ->
           ScalarDicts({Null, Num(1), Num(2)}, {Num(1), Num(2)})
      [] f = "object" ->
           Opt("o", {Obj(d) : d \in ScalarDicts({Null, Num(1), Num(2)}, {Num(2)})})
      [] f = "list" ->
           Opt("l", {List(l) : l \in Lists(max)})
      [] f = "mixed" ->
           Opt("l", {Null, Num(1), Obj(<<>>), Obj("x" :> Num(1)),
                     Obj("l" :> List(<<EntryA1>>)), Obj("l" :> List(<<EntryA2>>)),
                     List(<<>>)}
                    \cup (IF max > 0 THEN {List(<<Num(1)>>), List(<<EntryB>>)}
                          ELSE {}))

\* ---------------------------------------------------------------- mymain
\* mymain of merge_json up to the loop over the source files.
MjMain ==
    /\ mjpc = "main"
    /\ \E n \in {0, 1} :
         IF n < 1 THEN mjpc' = "exit" ELSE mjpc' = "file"
    /\ merged' = <<>>
    /\ UNCHANGED <<mjfamily, frags, printed, outfile, b2cvars, crvars>>

\* process_source_file of merge_json for the next source file.  An exception
\* of merge ends the script: nothing reads merged afterwards.
MjProcessSourceFile ==
    /\ mjpc = "file" /\ Len(frags) < MaxFragments
    /\ \E data \in Fragments(mjfamily, MaxItems - ItemsRead(frags)) :
         LET r == merge(merged, data)
         IN  /\ frags' = Append(frags, data)
             /\ printed' = printed + r.n
             /\ IF r.ok THEN merged' = r.v /\ mjpc' = "file"
                ELSE merged' = merged /\ mjpc' = "crash"
    /\ UNCHANGED <<mjfamily, outfile, b2cvars, crvars>>

\* mymain of merge_json after the loop: json.dump(merged, outfile).
MjDump ==
    /\ mjpc = "file" /\ Len(frags) >= 1
    /\ outfile' = <<merged>>
    /\ mjpc' = "done"
    /\ UNCHANGED <<mjfamily, merged, frags, printed, b2cvars, crvars>>

MergeInit ==
    /\ mjpc = "main" /\ mjfamily \in MjFamilies
    /\ merged = <<>> /\ frags = <<>> /\ printed = 0 /\ outfile = <<>>
    /\ pc = "idle" /\ err = "" /\ family = "none"
    /\ pinlist = <<>>
    /\ files = 0 /\ nodes = 0 /\ device_name = NONE
    /\ mblks = 0 /\ mblk_nr = 0 /\ nro_mblks = 0
    /\ block_name = NONE /\ handle = NONE
    /\ groups = <<>> /\ gi = 0 /\ sigs = 0 /\ group_name = NONE
    /\ current_type = NONE /\ current_addr = 0 /\ max_addr = 0
    /\ signal_nr = 0 /\ nro_signals = 0
    /\ define_list = <<>> /\ mblk_list = <<>> /\ array_list = <<>>
    /\ cfile = <<>> /\ hfile = <<>>
    /\ read = <<>> /\ trace = <<>>
    /\ CrIdle

MergeNext == MjMain \/ MjProcessSourceFile \/ MjDump

MergeSpec == MergeInit /\ [][MergeNext]_vars


\* ------------------------------------------------- claims on merge_json
\* merge_json has neither stopped for want of source files nor raised.
Merging == mjpc \in {"file", "done"}

RECURSIVE FirstValue(_)
\* The first value of a sequence of JSON values that is not null (null when
\* there is none).
FirstValue(values) ==
    IF values = <<>> THEN Null
    ELSE IF Head(values).t # "null" THEN Head(values)
    ELSE FirstValue(Tail(values))

\* The values the fragments read give to a key, and to a key of the object
\* under a key, absent ones as null.
ValuesOf(key) == [i \in 1..Len(frags) |-> DictGet(frags[i], key)]
SubValuesOf(key, sub) ==
    [i \in 1..Len(frags) |->
        IF ValuesOf(key)[i].t = "obj" THEN DictGet(ValuesOf(key)[i].v, sub)
        ELSE Null]

AllOfTypes(values, types) == \A i \in 1..Len(values) : values[i].t \in types
Scalars == {"num", "str"}

\* C12: under a key to which the fragments give scalars, the merged value is
\* the value of the first fragment that gives the key a value (null gives
\* none), whatever fragments follow; when the fragments give objects, the
\* same holds under every key of the merged object.
C12_FirstWins ==
    Merging =>
        \A key \in DOMAIN merged \cup UNION {DOMAIN frags[i] : i \in 1..Len(frags)} :
            /\ AllOfTypes(ValuesOf(key), Scalars \cup {"null"}) =>
                  /\ Same(DictGet(merged, key), FirstValue(ValuesOf(key)))
                  /\ key \in DOMAIN merged <=> FirstValue(ValuesOf(key)).t # "null"
            /\ AllOfTypes(ValuesOf(key), {"obj", "null"}) =>
                  \A sub \in {"x", "y"} :
                      AllOfTypes(SubValuesOf(key, sub), Scalars \cup {"null"}) =>
                          Same(IF DictGet(merged, key).t = "obj"
                               THEN DictGet(merged[key].v, sub) ELSE Null,
                               FirstValue(SubValuesOf(key, sub)))

\* Three fragments were merged and written: the second is the first to give
\* x a value and the third gives it another; the same under the object o.
C12_Witness ==
    /\ mjpc = "done" /\ Len(frags) = 3
    /\ \/ /\ ValuesOf("x")[1].t = "null"
          /\ ValuesOf("x")[2].t = "num" /\ ValuesOf("x")[3].t = "num"
          /\ ValuesOf("x")[2].v # ValuesOf("x")[3].v
          /\ Same(outfile[1]["x"], ValuesOf("x")[2])
       \/ /\ ValuesOf("o")[1].t = "obj" /\ SubValuesOf("o", "x")[1].t = "null"
          /\ SubValuesOf("o", "x")[2].t = "num" /\ SubValuesOf("o", "x")[3].t = "num"
          /\ SubValuesOf("o", "x")[2].v # SubValuesOf("o", "x")[3].v
          /\ Same(outfile[1]["o"].v["x"], SubValuesOf("o", "x")[2])


\* The fragments read that hold a list under "l", in order.
ListFrags == SelectSeq(frags, LAMBDA d : DictGet(d, "l").t = "list")

RECURSIVE Concat(_)
\* The items of the lists of a sequence of fragments, in order.
Concat(fs) == IF fs = <<>> THEN <<>> ELSE Head(fs)["l"].v \o Concat(Tail(fs))

\* The list of the first fragment that has one, and the items that come in
\* from the fragments after it.
BaseList == IF ListFrags = <<>> THEN <<>> ELSE Head(ListFrags)["l"].v
Incoming == IF ListFrags = <<>> THEN <<>> ELSE Concat(Tail(ListFrags))

NameOf(entry) == DictGet(entry.v, "name")
HasName(list, name) == \E j \in 1..Len(list) : Same(NameOf(list[j]), name)

RECURSIVE NewNames(_, _)
\* The names of the items that match no entry of a list, each name once, in
\* the order in which the items come in.
NewNames(items, list) ==
    IF items = <<>> THEN <<>>
    ELSE LET name == NameOf(Head(items))
         IN  IF name.t = "null" \/ HasName(list, name)
             THEN NewNames(Tail(items), list)
             ELSE <<name>> \o NewNames(Tail(items), Append(list, Head(items)))

\* The entry of the merged list at position j, then the items that came in
\* under its name, when it is the first entry of that name.
Sources(list, j) ==
    (IF j <= Len(BaseList) THEN <<BaseList[j]>> ELSE <<>>)
    \o SelectSeq(Incoming, LAMBDA item :
          /\ NameOf(item).t # "null"
          /\ Same(NameOf(item), NameOf(list[j]))
          /\ \A i \in 1..(j - 1) : ~Same(NameOf(list[i]), NameOf(list[j])))

\* C13: the list of the first fragment keeps its entries at their positions;
\* an item that comes in under the name of an entry is merged into the
\* first entry of that name, the fields already there staying and the other
\* fields being added; an item of a new name is appended at the end.
C13_NamedListMerge ==
    (Merging /\ mjfamily = "list" /\ ListFrags # <<>>) =>
        LET list == merged["l"].v
            new == NewNames(Incoming, BaseList)
        IN  /\ Len(list) = Len(BaseList) + Len(new)
            /\ \A j \in 1..Len(BaseList) : Same(NameOf(list[j]), NameOf(BaseList[j]))
            /\ \A m \in 1..Len(new) : Same(NameOf(list[Len(BaseList) + m]), new[m])
            /\ \A j \in 1..Len(list) :
                  /\ list[j].t = "obj"
                  /\ \A key \in {"name", "x", "y"} :
                        LET from == Sources(list, j)
                        IN  Same(DictGet(list[j].v, key),
                                 FirstValue([i \in 1..Len(from) |->
                                                DictGet(from[i].v, key)]))

\* [{name:a,x:1}] is merged with [{name:a,x:2,y:2}, {name:b}] and written as
\* [{name:a,x:1,y:2}, {name:b}].
C13_Witness ==
    /\ mjpc = "done" /\ mjfamily = "list" /\ Len(frags) = 2
    /\ DOMAIN frags[1] = {"l"} /\ DOMAIN frags[2] = {"l"}
    /\ frags[1]["l"].v = <<EntryA1>>
    /\ frags[2]["l"].v = <<EntryA2, EntryB>>
    /\ outfile[1]["l"].v =
         <<Obj(("name" :> Str("a")) @@ ("x" :> Num(1)) @@ ("y" :> Num(2))), EntryB>>


\* C14: a document merged with itself is written as it is.
C14_Idempotent ==
    (Len(frags) = 2 /\ frags[1] = frags[2]) =>
        /\ mjpc # "crash"
        /\ mjpc = "done" => outfile[1] = frags[1]

\* The entries of a list that have no name.
Nameless(list) == SelectSeq(list, LAMBDA e : e.t = "obj" /\ NameOf(e).t = "null")

\* C15, as stated: no entry of the merged list is without name, whichever
\* fragment it came from.
C15_NamelessDropped ==
    (Merging /\ mjfamily = "list" /\ ListFrags # <<>>) =>
        Nameless(merged["l"].v) = <<>>

\* A fragment without the nameless items of its list.
Strip(d) ==
    IF DictGet(d, "l").t = "list"
    THEN DictSet(d, "l", List(SelectSeq(d["l"].v, LAMBDA e : NameOf(e).t # "null")))
    ELSE d

RECURSIVE MergeAll(_, _)
\* The fragments merged from left to right into a document.
MergeAll(m, fs) ==
    IF fs = <<>> THEN m ELSE MergeAll(merge(m, Head(fs)).v, Tail(fs))

\* The fragments read, those after the first one that has a list without the
\* nameless items of their lists.
Stripped ==
    [i \in 1..Len(frags) |->
        IF \E h \in 1..(i - 1) : DictGet(frags[h], "l").t = "list"
        THEN Strip(frags[i]) ELSE frags[i]]

\* C15, amended: a list item without name that comes in for a list the
\* merged document has already is reported and dropped: the merged document
\* is the one that the fragments without these items give, and the merge
\* goes on to the end.  The list of the first fragment that has one is
\* taken as it is, its nameless entries included and unreported.
C15_IncomingNamelessDropped ==
    mjfamily = "list" =>
        /\ mjpc # "crash"
        /\ mjpc \in {"file", "done"} =>
              /\ printed = Len(Nameless(Incoming))
              /\ merged = MergeAll(<<>>, Stripped)
              /\ ListFrags # <<>> =>
                    /\ Len(Nameless(merged["l"].v)) = Len(Nameless(BaseList))
                    /\ \A j \in 1..Len(BaseList) :
                          NameOf(BaseList[j]).t = "null" =>
                              merged["l"].v[j] = BaseList[j]

\* A nameless item comes in between two named ones, in the second of three
\* fragments; the items after it and the third fragment are merged.
C15_Witness ==
    /\ mjpc = "done" /\ mjfamily = "list" /\ Len(frags) = 3
    /\ \A i \in 1..3 : DOMAIN frags[i] = {"l"}
    /\ frags[1]["l"].v = <<EntryA1>>
    /\ frags[2]["l"].v = <<EntryNoName, EntryB>>
    /\ frags[3]["l"].v = <<EntryA2>>
    /\ printed = 1
    /\ outfile[1]["l"].v =
         <<Obj(("name" :> Str("a")) @@ ("x" :> Num(1)) @@ ("y" :> Num(2))), EntryB>>


\* ============================================== more claims on bin-to-c
\* The bytes of the signals of descriptors i and j overlap.
Overlap(i, j) ==
    /\ Descs[i].addr < Descs[j].addr + Footprint(j)
    /\ Descs[j].addr < Descs[i].addr + Footprint(i)

\* C16: a signal with an 'addr' is placed at that address, before or behind
\* the cursor; the cursor goes on from the address plus the footprint, where
\* the next signal without 'addr' is placed; and whether a signal is compiled
\* depends on its name and type only, never on the bytes it covers.
C16_ExplicitAddr ==
    /\ \A i \in 1..Len(Descs) :
          /\ ~NoAddr(i) =>
                /\ Descs[i].addr = trace[i].sig.addr[1]
                /\ trace[i].cursor = trace[i].sig.addr[1] + Footprint(i)
          /\ (i > BlockStart(i) /\ NoAddr(i) /\ ~NoAddr(i - 1)) =>
                Descs[i].addr = trace[i - 1].sig.addr[1] + Footprint(i - 1)
    /\ \A i \in 1..Len(trace) :
          trace[i].out = "ok" <=>
              /\ trace[i].sig.name # NONE
              /\ trace[i].type \in DOMAIN osal_typeinfo
    /\ err \in {"", "No source files", "'io' not found", "'mblk' not found",
                "'groups' not found", "'name' not found for group",
                "'signals' not found", "'name' not found for signal", "KeyError"}

\* A compilation came to its end in which the second signal of a block was
\* placed, by its 'addr', behind the cursor and on bytes of the first.
C16_Witness ==
    /\ pc = "done"
    /\ \E j \in 2..Len(Descs) :
          /\ BlockStart(j) < j /\ ~NoAddr(j)
          /\ Descs[j].addr < trace[j].before
          /\ Overlap(j - 1, j)

\* C17: the array length of a signal is its 'array' when that is 1 or more
\* and 1 otherwise; the footprint is computed from this length and the
\* descriptor carries it.
C17_ArrayLength ==
    \A i \in 1..Len(Descs) :
        LET array == trace[i].sig.array
            n == IF array = <<>> THEN 1 ELSE IF array[1] < 1 THEN 1 ELSE array[1]
            width == osal_typeinfo[Descs[i].type]
        IN  /\ Descs[i].n = n
            /\ trace[i].cursor - Descs[i].addr =
                  IF Descs[i].type = "boolean" /\ n = 1 THEN 1 ELSE n * width + 1

\* A signal with 'array' 0 and a signal with 'array' 9 have been compiled.
C17_Witness ==
    /\ \E i \in 1..Len(Descs) : trace[i].sig.array = <<0>> /\ Descs[i].n = 1
    /\ \E i \in 1..Len(Descs) : trace[i].sig.array = <<9>> /\ Descs[i].n = 9

RECURSIVE OwnCeiling(_, _)
\* 32, or the largest end address among the signals of block k compiled
\* among the first n signals when that is more.
OwnCeiling(k, n) ==
    IF n = 0 THEN 32
    ELSE LET rest == OwnCeiling(k, n - 1)
         IN  IF trace[n].blk = k /\ trace[n].cursor > rest
             THEN trace[n].cursor ELSE rest

\* What block k gave to lay out, and how it was laid out.
BlockInput(k) ==
    LET own == SelectSeq(trace, LAMBDA t : t.blk = k /\ t.out = "ok")
    IN  [i \in 1..Len(own) |-> <<own[i].gi, own[i].gname, own[i].sig>>]
BlockOutput(k) ==
    LET own == SelectSeq(trace, LAMBDA t : t.blk = k /\ t.out = "ok")
    IN  [i \in 1..Len(own) |-> <<own[i].addr, own[i].cursor, own[i].max>>]

\* C18: the first signal of every block finds the cursor at 0 and the
\* ceiling at 32; the size of a block is 32 or the largest end address of
\* its own signals; two blocks of a run with the same groups and signals
\* get the same addresses and the same size, whatever was compiled before.
C18_BlockLocal ==
    /\ \A i \in 1..Len(trace) :
          i = BlockStart(i) =>
              /\ trace[i].before = 0
              /\ trace[i].out = "ok" =>
                    trace[i].max = IF trace[i].cursor > 32 THEN trace[i].cursor ELSE 32
    /\ LET sizes == MblkSz
       IN  /\ \A k \in 1..Len(sizes) : sizes[k].v = OwnCeiling(k, Len(Descs))
           /\ \A k1 \in 1..Len(sizes) : \A k2 \in (k1 + 1)..Len(sizes) :
                 BlockInput(k1) = BlockInput(k2) =>
                     /\ BlockOutput(k1) = BlockOutput(k2)
                     /\ sizes[k1].v = sizes[k2].v

\* Two blocks have been compiled, the first larger than 32 bytes, the second
\* of one signal at address 0, in a block of 32 bytes.
C18_Witness ==
    \E i \in 2..Len(Descs) :
        /\ trace[i - 1].blk # trace[i].blk
        /\ trace[i - 1].max > 32
        /\ Descs[i].addr = 0 /\ trace[i].max = 32
        /\ Len(MblkSz) >= trace[i].blk /\ MblkSz[trace[i].blk].v = 32


\* The pin map that the pin schema of the run's family gives: the schema of
\* the schema and layout families has one named pin, "a" of group "inputs",
\* under the default prefix; the runs of the other families have no schema.
PinsOfSchema ==
    IF family \in {"types", "blocks"} THEN <<>>
    ELSE "a" :> <<"&", "pins", "inputs", "a">>

\* C19: from the moment the output files are started, so before any block
\* is compiled, and up to the end the pin map holds the named pins of the
\* pin schema; the descriptor of a signal carries the pin reference
\* &prefix.group.name of the pin of its name, and OS_NULL when the map has
\* no pin of its name.
C19_PinMap ==
    /\ cfile # <<>> =>
          /\ DOMAIN pinlist = DOMAIN PinsOfSchema
          /\ \A name \in DOMAIN pinlist : pinlist[name] = PinsOfSchema[name]
    /\ \A i \in 1..Len(Descs) :
          Descs[i].pin = IF Descs[i].name \in DOMAIN PinsOfSchema
                         THEN <<"&", "pins", "inputs", Descs[i].name>>
                         ELSE <<"OS_NULL">>

\* A compiled block of a signal with a pin and a signal without.
C19_Witness ==
    /\ pc = "done"
    /\ \E i, j \in 1..Len(Descs) :
          /\ Descs[i].name = "a" /\ Descs[i].pin = <<"&", "pins", "inputs", "a">>
          /\ Descs[j].name = "b" /\ Descs[j].pin = <<"OS_NULL">>


RECURSIVE BlockOwners(_)
\* For every block compiled, in order, among the first n records read: the
\* number and the name of its device and its own name.
BlockOwners(n) ==
    IF n = 0 THEN <<>>
    ELSE IF read[n].k = "mblk" /\ read[n].list # <<>>
    THEN LET devs == OfKind(SubSeq(read, 1, n), "dev")
         IN  Append(BlockOwners(n - 1),
                 [dev |-> Len(devs),
                  device |-> GetStr(devs[Len(devs)].name, "unnamed_device"),
                  block |-> GetStr(read[n].name, "MBLK")])
    ELSE BlockOwners(n - 1)

\* The size constants of the arrays of device d: one per compiled signal of
\* an array length above 1, in the order of the signals.
ArrayConstants(d) ==
    LET owners == BlockOwners(Len(read))
        arrays == SelectSeq(trace, LAMBDA t :
                      t.out = "ok" /\ t.n > 1 /\ owners[t.blk].dev = d)
    IN  [i \in 1..Len(arrays) |->
            [name |-> <<upper(owners[arrays[i].blk].device),
                        upper(owners[arrays[i].blk].block),
                        upper(arrays[i].sig.name), "ARRAY_SZ">>,
             v |-> arrays[i].sig.array[1]]]

RECURSIVE SegVals(_, _, _, _)
\* The values of the item tokens among the first n tokens of a file, one
\* sequence per opening token.
SegVals(file, open, item, n) ==
    IF n = 0 THEN <<>>
    ELSE LET prev == SegVals(file, open, item, n - 1)
             t == file[n]
         IN  IF t.k = open THEN Append(prev, <<>>)
             ELSE IF t.k = item /\ prev # <<>>
             THEN [prev EXCEPT ![Len(prev)] = Append(@, t.v)]
             ELSE prev

\* The array size constants written to the header, per device.
ArrayDefines == SegVals(hfile, "typedef", "arraydefine", Len(hfile))

\* C20: the header of a compiled device has, after the device's struct and
\* in the order of the signals, one constant DEVICE_BLOCK_SIGNAL_ARRAY_SZ of
\* the declared length for every signal of the device with an array length
\* above 1, and no other; none is written before the last block of the
\* device is compiled, and the constants collected for a device are those
\* of its own signals.
C20_ArrayConstants ==
    LET defines == ArrayDefines
    IN  \A d \in 1..Len(defines) :
            LET constants == ArrayConstants(d)
            IN  IF d <= CountKind(hfile, "externhdr")
                THEN /\ defines[d] = constants
                     /\ Counts(hfile, "externhdr", "arraydefine", Len(hfile))[d]
                           = Len(constants)
                ELSE /\ defines[d] = <<>>
                     /\ pc # "abort" => array_list = constants

\* Two devices have been compiled: the first has an array and its constant,
\* the second has neither.
C20_Witness ==
    /\ pc = "done" /\ Len(ArrayDefines) = 2
    /\ Len(ArrayDefines[1]) = 1
    /\ ArrayDefines[1][1].name[3] = "A" /\ ArrayDefines[1][1].v = 40
    /\ ArrayDefines[2] = <<>>

RECURSIVE Initializers(_)
\* The block initializers among the first n tokens of the runtime stream, in
\* order: the signal count of the block header, the descriptors written for
\* the block and whether the initializer of the block's device was closed.
Initializers(n) ==
    IF n = 0 THEN <<>>
    ELSE LET prev == Initializers(n - 1)
             t == cfile[n]
         IN  CASE t.k = "mblk" ->
                    Append(prev, [n |-> t.n, descs |-> <<>>, compiled |-> FALSE])
               [] t.k = "sig" ->
                    [prev EXCEPT ![Len(prev)].descs = Append(@, t)]
               [] t.k = "devend" ->
                    [i \in 1..Len(prev) |-> [prev[i] EXCEPT !.compiled = TRUE]]
               [] OTHER -> prev

\* C21: for every block of a compiled device, the signal count of the block
\* header is the number of descriptors written for the block, and a comma
\* follows every descriptor of the block but the last.
C21_SignalCount ==
    LET blocks == Initializers(Len(cfile))
    IN  \A k \in 1..Len(blocks) :
            blocks[k].compiled =>
                /\ blocks[k].n = Len(blocks[k].descs)
                /\ \A i \in 1..Len(blocks[k].descs) :
                      blocks[k].descs[i].comma <=> i < Len(blocks[k].descs)

\* A compiled device has a block of two groups of one signal each: the
\* first descriptor is followed by a comma, the second is not.
C21_Witness ==
    LET blocks == Initializers(Len(cfile))
    IN  /\ pc = "done"
        /\ \E k \in 1..Len(blocks) :
              /\ blocks[k].compiled /\ Len(blocks[k].descs) = 2
              /\ trace[1].gi # trace[2].gi
              /\ blocks[k].descs[1].comma /\ ~blocks[k].descs[2].comma

\* The processing of the k-th block has ended: its struct was closed, or the
\* compilation stopped.
BlockEnded(k) == k <= CountKind(hfile, "structend") \/ pc = "abort"

\* C22, as stated: whenever the processing of a block has ended, normally or
\* by an abort, the block has as many fields in the structural stream as
\* descriptors in the runtime stream.
C22_InStep ==
    LET fields == FieldNames
        descs == DescNames
    IN  /\ Len(fields) = Len(descs)
        /\ \A k \in 1..Len(descs) :
              BlockEnded(k) => Len(fields[k]) = Len(descs[k])

\* C22, amended: when the processing of a block has ended, the fields of the
\* block are the descriptors of the block, name by name, unless the
\* compilation stopped in the block at a signal of unknown type: then the
\* structural stream is one field ahead, the field of that signal.
C22_InStepOrFieldAhead ==
    LET fields == FieldNames
        descs == DescNames
    IN  /\ Len(fields) = Len(descs)
        /\ \A k \in 1..Len(descs) :
              BlockEnded(k) =>
                  IF pc = "abort" /\ err = "KeyError" /\ k = Len(descs)
                  THEN fields[k] = Append(descs[k], trace[Len(trace)].sig.name)
                  ELSE fields[k] = descs[k]

\* The compilation stopped at the second signal of a block, which has an
\* unknown type: the block has two fields and one descriptor.
C22_Witness ==
    /\ pc = "abort" /\ err = "KeyError"
    /\ Len(trace) = 2 /\ trace[1].blk = trace[2].blk
    /\ trace[2].type \notin DOMAIN osal_typeinfo
    /\ Len(FieldNames[Len(FieldNames)]) = 2
    /\ Len(DescNames[Len(DescNames)]) = 1

\* =========================================== create-certificate-request
\* extensions/tls/scripts/create-certificate-request.py: a key pair is
\* generated, and the certificate request signed with it is written to the
\* file reqfile and its private key to the file privkey (in the directory
\* 'secret' of the target directory) unless the script finds a file in its
\* way.
\*
\* A file holds the number of the key pair it was written for: 1..MaxKeys
\* for the key pairs of earlier runs, a greater number for the key pair this
\* run generates.
KeyFiles == {<<>>} \cup {<<i>> : i \in 1..MaxKeys}
GeneratedKeys == {MaxKeys + 1, MaxKeys + 2}

\* The target directory when the script starts: the directory itself or its
\* directory 'secret' may be missing, and then so are the files in them.
Disks ==
    {d \in [dirs : {"none", "target", "secret"},
            reqfile : KeyFiles, privkey : KeyFiles] :
        /\ d.reqfile # <<>> => d.dirs # "none"
        /\ d.privkey # <<>> => d.dirs = "secret"}

\* os.path.exists of a file.
exists(file) == file # <<>>

\* bin-to-c.py is not running.
B2cIdle ==
    /\ pc = "idle" /\ err = "" /\ family = "none"
    /\ pinlist = <<>>
    /\ files = 0 /\ nodes = 0 /\ device_name = NONE
    /\ mblks = 0 /\ mblk_nr = 0 /\ nro_mblks = 0
    /\ block_name = NONE /\ handle = NONE
    /\ groups = <<>> /\ gi = 0 /\ sigs = 0 /\ group_name = NONE
    /\ current_type = NONE /\ current_addr = 0 /\ max_addr = 0
    /\ signal_nr = 0 /\ nro_signals = 0
    /\ define_list = <<>> /\ mblk_list = <<>> /\ array_list = <<>>
    /\ cfile = <<>> /\ hfile = <<>>
    /\ read = <<>> /\ trace = <<>>

CertInit ==
    /\ crpc = "start" /\ pkey = 0
    /\ disk \in Disks /\ disk0 = disk
    /\ crprinted = <<>>
    /\ B2cIdle /\ MjIdle

\* The key pair is generated, the request is built and signed, and both are
\* serialised: nothing is read or written on the disk.
CrGenerate ==
    /\ crpc = "start"
    /\ pkey' \in GeneratedKeys
    /\ crpc' = "check_reqfile"
    /\ UNCHANGED <<disk, disk0, crprinted, b2cvars, mjvars>>

\* if os.path.exists(reqfile): print(...); exit()
CrCheckReqfile ==
    /\ crpc = "check_reqfile"
    /\ IF exists(disk.reqfile)
       THEN /\ crprinted' = Append(crprinted, "Certificate file exists")
            /\ crpc' = "exit"
       ELSE /\ crpc' = "check_privkey"
            /\ UNCHANGED crprinted
    /\ UNCHANGED <<pkey, disk, disk0, b2cvars, mjvars>>

\* The second check, which prints that the private key file exists: it is
\* os.path.exists(reqfile) again.
CrCheckPrivkey ==
    /\ crpc = "check_privkey"
    /\ IF exists(disk.reqfile)
       THEN /\ crprinted' = Append(crprinted, "Private key file exists")
            /\ crpc' = "exit"
       ELSE /\ crpc' = "write_reqfile"
            /\ UNCHANGED crprinted
    /\ UNCHANGED <<pkey, disk, disk0, b2cvars, mjvars>>

\* open(reqfile, "wt").write(pub): open raises when the target directory is
\* missing.
CrWriteReqfile ==
    /\ crpc = "write_reqfile"
    /\ IF disk.dirs = "none"
       THEN crpc' = "crash" /\ UNCHANGED disk
       ELSE /\ disk' = [disk EXCEPT !.reqfile = <<pkey>>]
            /\ crpc' = "write_privkey"
    /\ UNCHANGED <<pkey, disk0, crprinted, b2cvars, mjvars>>

\* open(privkey, "wt").write(priv): open raises when the directory 'secret'
\* is missing.
CrWritePrivkey ==
    /\ crpc = "write_privkey"
    /\ IF disk.dirs # "secret"
       THEN crpc' = "crash" /\ UNCHANGED disk
       ELSE /\ disk' = [disk EXCEPT !.privkey = <<pkey>>]
            /\ crpc' = "done"
    /\ UNCHANGED <<pkey, disk0, crprinted, b2cvars, mjvars>>

CertNext ==
    \/ CrGenerate
    \/ CrCheckReqfile
    \/ CrCheckPrivkey
    \/ CrWriteReqfile
    \/ CrWritePrivkey

CertSpec == CertInit /\ [][CertNext]_vars

\* C23: create-certificate-request.py never overwrites key material: when
\* the request file or the private key file exists at the start, the script
\* stops before its writes and both files stay as they were; the script
\* comes to its end, both files written, only when neither file existed.
C23_NoOverwrite ==
    /\ (exists(disk0.reqfile) \/ exists(disk0.privkey)) =>
          /\ disk = disk0
          /\ crpc \notin {"write_reqfile", "write_privkey", "done"}
    /\ crpc = "done" =>
          /\ ~exists(disk0.reqfile) /\ ~exists(disk0.privkey)
          /\ disk.reqfile = <<pkey>> /\ disk.privkey = <<pkey>>

====
